---------------------------- MODULE Spec2Model ----------------------------
(***************************************************************************)
(* A model of CrosswordCreator (src/generate.py): the domain store, node   *)
(* consistency, revise / AC-3, the assignment validator, the two search    *)
(* heuristics and the recursive backtracking search driven by solve().     *)
(*                                                                         *)
(* A word is a tuple of letters; Python's 0-based word[i] is Char(word,i). *)
(* A slot (Variable) is an identifier; its length is crossword.length.     *)
(* Python's None is the empty tuple for an overlap and the record None for *)
(* the result of backtrack.  Every place where CPython iterates over a set *)
(* (set.pop, the order of equal keys in sorted()) is a nondeterministic    *)
(* choice, since the iteration order of a set of str depends on the hash   *)
(* seed of the process.                                                    *)
(***************************************************************************)
EXTENDS Naturals, Sequences, FiniteSets, TLC

VARIABLES
    crossword,   \* self.crossword: variables, length, overlaps, words
    domains,     \* self.domains: slot -> set of words
    pc,          \* the statement about to run
    arcs,        \* ac3: the local set `arcs`
    ac3_ret,     \* ac3: where the running call returns to
    ac3_result,  \* ac3: the value the last call returned
    assignment,  \* backtrack: the argument of the call being entered
    stack,       \* backtrack: the frames of the invocations in progress
    result,      \* backtrack: the value the last invocation returned
    hist         \* observations of the run the properties are stated over

vars == <<crossword, domains, pc, arcs, ac3_ret, ac3_result, assignment,
          stack, result, hist>>

(***************************************************************************)
(* Bounds of the model.                                                    *)
(***************************************************************************)
\* the numbers of slots of a crossword
SlotCounts == 0..3
\* the most words a vocabulary holds
MaxVocab == 3
\* the letters of the words
Letters == {"a", "b"}
\* the lengths of the slots and of the words
Lengths == {1, 2}

(***************************************************************************)
(* The puzzle model (class Crossword of crossword.py), after the data      *)
(* model of the specification: slots, lengths, overlaps, neighbors, words. *)
(***************************************************************************)
NoOverlap == <<>>

AllWords == UNION {[1..n -> Letters] : n \in Lengths}

Vocabularies == {V \in SUBSET AllWords : Cardinality(V) <= MaxVocab}

Pairs(S) == {p \in S \X S : p[1] # p[2]}

Indices == {i - 1 : i \in Lengths}

\* An overlap relation of a grid: symmetric with swapped indices, indices
\* inside the words, a cell of a slot crossed by at most one other slot, and
\* only slots of different directions cross.
ValidOverlaps(S, len, ov) ==
    /\ \A p \in Pairs(S) :
         LET x == p[1]
             y == p[2]
         IN  IF ov[x, y] = NoOverlap
             THEN ov[y, x] = NoOverlap
             ELSE /\ ov[y, x] = <<ov[x, y][2], ov[x, y][1]>>
                  /\ ov[x, y][1] < len[x]
                  /\ ov[x, y][2] < len[y]
    /\ \A x \in S : \A y, z \in S \ {x} :
         (y # z /\ ov[x, y] # NoOverlap /\ ov[x, z] # NoOverlap)
            => ov[x, y][1] # ov[x, z][1]
    /\ \E dir \in [S -> {"across", "down"}] :
         \A p \in Pairs(S) : ov[p[1], p[2]] # NoOverlap => dir[p[1]] # dir[p[2]]

\* crossword.neighbors(var)
neighbors(var) ==
    {v \in crossword.variables :
        v # var /\ crossword.overlaps[var, v] # NoOverlap}

\* word[i] of Python, i counted from 0
Char(word, i) == word[i + 1]

(***************************************************************************)
(* CrosswordCreator                                                        *)
(***************************************************************************)
\* __init__: every slot starts with its own copy of the vocabulary
init_domains(cw) == [var \in cw.variables |-> cw.words]

\* enforce_node_consistency with line 107 as len(word) > v.length
enforce_node_consistency_longer(dom) ==
    [v \in DOMAIN dom |->
        dom[v] \ {word \in dom[v] : Len(word) > crossword.length[v]}]

\* enforce_node_consistency: from every domain, remove the words whose
\* length is not the slot's
enforce_node_consistency(dom) ==
    [v \in DOMAIN dom |->
        dom[v] \ {word \in dom[v] : Len(word) # crossword.length[v]}]

\* revise rebuilding domains[x] from the vocabulary instead of removing
\* words from it
revise_from_vocabulary(dom, x, y) ==
    IF crossword.overlaps[x, y] = NoOverlap
    THEN [domains |-> dom, ret |-> FALSE]
    ELSE LET i_x == crossword.overlaps[x, y][1]
             i_y == crossword.overlaps[x, y][2]
             kept == {word_x \in crossword.words :
                        /\ Len(word_x) = crossword.length[x]
                        /\ \E word_y \in dom[y] :
                              Char(word_x, i_x) = Char(word_y, i_y)}
         IN  [domains |-> [dom EXCEPT ![x] = kept], ret |-> kept # dom[x]]

\* revise that returns True whether or not it removed a word
revise_flag_set(dom, x, y) ==
    IF crossword.overlaps[x, y] = NoOverlap
    THEN [domains |-> dom, ret |-> TRUE]
    ELSE LET i_x == crossword.overlaps[x, y][1]
             i_y == crossword.overlaps[x, y][2]
             removed == {word_x \in dom[x] :
                           ~ \E word_y \in dom[y] :
                                Char(word_x, i_x) = Char(word_y, i_y)}
         IN  [domains |-> [dom EXCEPT ![x] = dom[x] \ removed],
              ret |-> TRUE]

\* revise that never sets `flag` (line 132)
revise_no_flag(dom, x, y) ==
    IF crossword.overlaps[x, y] = NoOverlap
    THEN [domains |-> dom, ret |-> FALSE]
    ELSE LET i_x == crossword.overlaps[x, y][1]
             i_y == crossword.overlaps[x, y][2]
             removed == {word_x \in dom[x] :
                           ~ \E word_y \in dom[y] :
                                Char(word_x, i_x) = Char(word_y, i_y)}
         IN  [domains |-> [dom EXCEPT ![x] = dom[x] \ removed],
              ret |-> FALSE]

\* revise that sets `found` only when every word of domains[y] matches
revise_every(dom, x, y) ==
    IF crossword.overlaps[x, y] = NoOverlap
    THEN [domains |-> dom, ret |-> FALSE]
    ELSE LET i_x == crossword.overlaps[x, y][1]
             i_y == crossword.overlaps[x, y][2]
             removed == {word_x \in dom[x] :
                           ~ \A word_y \in dom[y] :
                                Char(word_x, i_x) = Char(word_y, i_y)}
         IN  [domains |-> [dom EXCEPT ![x] = dom[x] \ removed],
              ret |-> removed # {}]

\* revise(x, y): the domains afterwards and the value returned
revise(dom, x, y) ==
    IF crossword.overlaps[x, y] = NoOverlap
    THEN [domains |-> dom, ret |-> FALSE]
    ELSE LET i_x == crossword.overlaps[x, y][1]
             i_y == crossword.overlaps[x, y][2]
             removed == {word_x \in dom[x] :
                           ~ \E word_y \in dom[y] :
                                Char(word_x, i_x) = Char(word_y, i_y)}
         IN  [domains |-> [dom EXCEPT ![x] = dom[x] \ removed],
              ret |-> removed # {}]

\* ac3: the initial arcs when `arcs` is None
default_arcs == {p \in (DOMAIN domains) \X (DOMAIN domains) : p[1] # p[2]}

\* ac3 with the arcs of line 151 reversed: (x, y) is put back, not (y, x)
requeue_reversed(x) == {<<x, y>> : y \in {z \in DOMAIN domains : x # z}}

\* ac3 without line 151: no arc is put back
requeue_nothing(x) == {}

\* ac3: the arcs put back after domains[x] was revised and is not empty
requeue(x) == {<<y, x>> : y \in {z \in DOMAIN domains : x # z}}

\* assignment_complete(assignment)
assignment_complete(a) == Cardinality(DOMAIN a) = Cardinality(DOMAIN domains)

\* consistent without the test of line 167: repeated words pass
consistent_repeats(a) ==
    /\ \A v \in DOMAIN a : Len(a[v]) = crossword.length[v]
    /\ \A x, y \in DOMAIN a :
         (x # y /\ crossword.overlaps[x, y] # NoOverlap)
            => Char(a[x], crossword.overlaps[x, y][1])
                 = Char(a[y], crossword.overlaps[x, y][2])

\* consistent without the loop of lines 172-177: crossing letters pass
consistent_crossings(a) ==
    /\ Cardinality({a[key] : key \in DOMAIN a}) = Cardinality(DOMAIN a)
    /\ \A v \in DOMAIN a : Len(a[v]) = crossword.length[v]

\* consistent with line 167 counting the slots of the puzzle, not those of
\* the assignment
consistent_all_slots(a) ==
    /\ Cardinality({a[key] : key \in DOMAIN a}) = Cardinality(DOMAIN domains)
    /\ \A v \in DOMAIN a : Len(a[v]) = crossword.length[v]
    /\ \A x, y \in DOMAIN a :
         (x # y /\ crossword.overlaps[x, y] # NoOverlap)
            => Char(a[x], crossword.overlaps[x, y][1])
                 = Char(a[y], crossword.overlaps[x, y][2])

\* consistent(assignment)
consistent(a) ==
    /\ Cardinality({a[key] : key \in DOMAIN a}) = Cardinality(DOMAIN a)
    /\ \A v \in DOMAIN a : Len(a[v]) = crossword.length[v]
    /\ \A x, y \in DOMAIN a :
         (x # y /\ crossword.overlaps[x, y] # NoOverlap)
            => Char(a[x], crossword.overlaps[x, y][1])
                 = Char(a[y], crossword.overlaps[x, y][2])

\* rule_out without the test of lines 190-191: the neighbors in the
\* assignment are counted too
rule_out_every_neighbor(var, a, word_var) ==
    LET count(neighbor) ==
            Cardinality({word_neighbor \in domains[neighbor] :
                Char(word_var, crossword.overlaps[var, neighbor][1])
                  # Char(word_neighbor, crossword.overlaps[var, neighbor][2])})
        sum[N \in SUBSET neighbors(var)] ==
            IF N = {} THEN 0
            ELSE LET n == CHOOSE n \in N : TRUE IN count(n) + sum[N \ {n}]
    IN  sum[neighbors(var)]

\* order_domain_values: rule_out[word_var]
rule_out(var, a, word_var) ==
    LET count(neighbor) ==
            IF neighbor \in DOMAIN a
            THEN 0
            ELSE Cardinality({word_neighbor \in domains[neighbor] :
                    Char(word_var, crossword.overlaps[var, neighbor][1])
                      # Char(word_neighbor, crossword.overlaps[var, neighbor][2])})
        sum[N \in SUBSET neighbors(var)] ==
            IF N = {} THEN 0
            ELSE LET n == CHOOSE n \in N : TRUE IN count(n) + sum[N \ {n}]
    IN  sum[neighbors(var)]

\* the orders in which a sequence can list the elements of S, each once
Permutations_of(S) ==
    {s \in [1..Cardinality(S) -> S] : \A w \in S : \E i \in DOMAIN s : s[i] = w}

\* order_domain_values(var, assignment): the lists sorted() can return; the
\* order of words with equal keys is that of the iteration over the set
order_domain_values(var, a) ==
    {s \in Permutations_of(domains[var]) :
        \A i, j \in DOMAIN s :
            i < j => rule_out(var, a, s[i]) <= rule_out(var, a, s[j])}

\* select_unassigned_variable without the difference of line 208: the slots
\* of the assignment are candidates too
select_unassigned_variable_among_all(a) ==
    LET key(x) == <<Cardinality(domains[x]), Cardinality(neighbors(x))>>
        le(k1, k2) == k1[1] < k2[1] \/ (k1[1] = k2[1] /\ k1[2] <= k2[2])
    IN  {x \in DOMAIN domains : \A z \in DOMAIN domains : le(key(x), key(z))}

\* select_unassigned_variable with the sort reversed: the largest domain
\* first
select_unassigned_variable_largest(a) ==
    LET unassigned_variables == (DOMAIN domains) \ (DOMAIN a)
        key(x) == <<Cardinality(domains[x]), Cardinality(neighbors(x))>>
        ge(k1, k2) == k1[1] > k2[1] \/ (k1[1] = k2[1] /\ k1[2] >= k2[2])
    IN  {x \in unassigned_variables :
            \A z \in unassigned_variables : ge(key(x), key(z))}

\* select_unassigned_variable(assignment): the slots sorted()[0] can be; the
\* order of slots with equal keys is that of the iteration over the set
select_unassigned_variable(a) ==
    LET unassigned_variables == (DOMAIN domains) \ (DOMAIN a)
        key(x) == <<Cardinality(domains[x]), Cardinality(neighbors(x))>>
        le(k1, k2) == k1[1] < k2[1] \/ (k1[1] = k2[1] /\ k1[2] <= k2[2])
    IN  {x \in unassigned_variables :
            \A z \in unassigned_variables : le(key(x), key(z))}

\* backtrack, line 228: the arcs given to ac3 after a consistent extension
unassigned_arcs(new_assignment) ==
    {p \in (DOMAIN domains) \X (DOMAIN domains) :
        /\ p[1] # p[2]
        /\ p[1] \notin DOMAIN new_assignment
        /\ p[2] \notin DOMAIN new_assignment}

\* the results of backtrack
None == [isNone |-> TRUE, value |-> <<>>]
Some(a) == [isNone |-> FALSE, value |-> a]

\* new_assignment[var] = word
Extend(a, var, word) ==
    [v \in (DOMAIN a) \cup {var} |-> IF v = var THEN word ELSE a[v]]

(***************************************************************************)
(* solve(): the program.                                                   *)
(***************************************************************************)
\* hist: dom0, the domains when the running (or last) ac3 call started;
\* by_default, whether that call started from the default arcs; assigned,
\* whether line 225 has run; nested, whether line 229 has run; again, whether
\* the running (or last) ac3 call is a second ac3() made right after an ac3()
\* on the default arcs returned True; x, y, pre, ret: the arguments of the last revise call of the client, the
\* domains before it and the value it returned
\* out: the slot or the list the last method called by the client returned
NoHist == [dom0 |-> <<>>, by_default |-> FALSE, assigned |-> FALSE,
           nested |-> FALSE, again |-> FALSE,
           x |-> 0, y |-> 0, pre |-> <<>>, ret |-> FALSE, out |-> <<>>]

\* the creator just constructed (__init__) on any crossword of the bounds,
\* about to run `start`
Constructed(start) ==
    \E n \in SlotCounts :
      \E len \in [1..n -> Lengths] :
        \E ov \in [Pairs(1..n) -> {NoOverlap} \cup (Indices \X Indices)] :
          /\ ValidOverlaps(1..n, len, ov)
          /\ \E V \in Vocabularies :
               /\ crossword = [variables |-> 1..n, length |-> len,
                               overlaps |-> ov, words |-> V]
               /\ domains = init_domains(crossword)
               /\ pc = start
               /\ arcs = {}
               /\ ac3_ret = "none"
               /\ ac3_result = FALSE
               /\ assignment = <<>>
               /\ stack = <<>>
               /\ result = None
               /\ hist = NoHist

Init == Constructed("solve_94")

\* solve, line 94: self.enforce_node_consistency()
solve_94 ==
    /\ pc = "solve_94"
    /\ domains' = enforce_node_consistency(domains)
    /\ pc' = "solve_95"
    /\ UNCHANGED <<crossword, arcs, ac3_ret, ac3_result, assignment, stack,
                   result, hist>>

\* solve without line 95: no ac3 before the search
solve_95_no_ac3 ==
    /\ pc = "solve_95"
    /\ pc' = "solve_96"
    /\ UNCHANGED <<crossword, domains, arcs, ac3_ret, ac3_result, assignment,
                   stack, result, hist>>

\* solve, line 95: self.ac3(); ac3, lines 144-145
solve_95 ==
    /\ pc = "solve_95"
    /\ arcs' = default_arcs
    /\ ac3_ret' = "solve_96"
    /\ pc' = "ac3_146"
    /\ hist' = [hist EXCEPT !.dom0 = domains, !.by_default = TRUE]
    /\ UNCHANGED <<crossword, domains, ac3_result, assignment, stack, result>>

\* ac3, lines 146-151: one turn of the loop on an arc popped from `arcs`
ac3_147 ==
    /\ pc = "ac3_146"
    /\ arcs # {}
    /\ \E arc \in arcs :
         LET x == arc[1]
             y == arc[2]
             r == revise(domains, x, y)
             rest == arcs \ {arc}
         IN  /\ domains' = r.domains
             /\ IF r.ret /\ r.domains[x] = {}
                THEN /\ ac3_result' = FALSE
                     /\ pc' = ac3_ret
                     /\ arcs' = {}
                ELSE /\ arcs' = IF r.ret THEN requeue(x) \cup rest ELSE rest
                     /\ UNCHANGED <<pc, ac3_result>>
    /\ UNCHANGED <<crossword, ac3_ret, assignment, stack, result, hist>>

\* ac3, line 152: the loop ended, return True
ac3_152 ==
    /\ pc = "ac3_146"
    /\ arcs = {}
    /\ ac3_result' = TRUE
    /\ pc' = ac3_ret
    /\ UNCHANGED <<crossword, domains, arcs, ac3_ret, assignment, stack,
                   result, hist>>

\* solve, line 96: return self.backtrack(dict())
solve_96 ==
    /\ pc = "solve_96"
    /\ assignment' = <<>>
    /\ pc' = "bt_220"
    /\ UNCHANGED <<crossword, domains, arcs, ac3_ret, ac3_result, stack,
                   result, hist>>

\* where a return of backtrack leads: the caller's line 230, or out of solve
ReturnTo(stk) == IF stk = <<>> THEN "done" ELSE "bt_230"

Top == stack[Len(stack)]
Pop == SubSeq(stack, 1, Len(stack) - 1)
SetTop(f) == [stack EXCEPT ![Len(stack)] = f]

\* backtrack, lines 220-221: the assignment is complete, return it
backtrack_221 ==
    /\ pc = "bt_220"
    /\ assignment_complete(assignment)
    /\ result' = Some(assignment)
    /\ pc' = ReturnTo(stack)
    /\ UNCHANGED <<crossword, domains, arcs, ac3_ret, ac3_result, assignment,
                   stack, hist>>

\* backtrack, lines 222-224: select a slot, copy the assignment, compute the
\* keys the candidate words are sorted by.  The frame keeps the words the
\* loop has not reached yet and their keys: the list sorted() returns is any
\* order of them with non-decreasing keys, so the next word of the loop is
\* any word not yet reached whose key is least.
backtrack_222 ==
    /\ pc = "bt_220"
    /\ ~ assignment_complete(assignment)
    /\ \E var \in select_unassigned_variable(assignment) :
           stack' = Append(stack,
              [assignment |-> assignment, var |-> var,
               new_assignment |-> assignment,
               rule_out |-> [w \in domains[var] |-> rule_out(var, assignment, w)],
               values |-> domains[var]])
    /\ pc' = "bt_224"
    /\ UNCHANGED <<crossword, domains, arcs, ac3_ret, ac3_result, assignment,
                   result, hist>>

\* the words the loop of line 224 can reach next
next_values(f) ==
    {w \in f.values : \A u \in f.values : f.rule_out[w] <= f.rule_out[u]}

\* backtrack without the copy of line 223: new_assignment is the caller's
\* dict, so line 225 writes into `assignment` too
backtrack_225_no_copy ==
    /\ pc = "bt_224"
    /\ Top.values # {}
    /\ \E word \in next_values(Top) :
         LET new_assignment == Extend(Top.new_assignment, Top.var, word)
         IN  /\ stack' = SetTop([Top EXCEPT !.new_assignment = new_assignment,
                                            !.assignment = new_assignment,
                                            !.values = @ \ {word}])
             /\ pc' = IF consistent(new_assignment) THEN "bt_228" ELSE "bt_224"
    /\ hist' = [hist EXCEPT !.assigned = TRUE]
    /\ UNCHANGED <<crossword, domains, arcs, ac3_ret, ac3_result, assignment,
                   result>>

\* backtrack, lines 224-227: the next word of the loop, assigned and checked
backtrack_225 ==
    /\ pc = "bt_224"
    /\ Top.values # {}
    /\ \E word \in next_values(Top) :
         LET new_assignment == Extend(Top.new_assignment, Top.var, word)
         IN  /\ stack' = SetTop([Top EXCEPT !.new_assignment = new_assignment,
                                            !.values = @ \ {word}])
             /\ pc' = IF consistent(new_assignment) THEN "bt_228" ELSE "bt_224"
    /\ hist' = [hist EXCEPT !.assigned = TRUE]
    /\ UNCHANGED <<crossword, domains, arcs, ac3_ret, ac3_result, assignment,
                   result>>

\* backtrack, line 228: self.ac3(arcs=...) on the arcs among unassigned slots
backtrack_228 ==
    /\ pc = "bt_228"
    /\ arcs' = unassigned_arcs(Top.new_assignment)
    /\ ac3_ret' = "bt_229"
    /\ pc' = "ac3_146"
    /\ hist' = [hist EXCEPT !.dom0 = domains,
                             !.by_default = (arcs' = default_arcs)]
    /\ UNCHANGED <<crossword, domains, ac3_result, assignment, stack, result>>

\* backtrack, line 229: result = self.backtrack(new_assignment)
backtrack_229 ==
    /\ pc = "bt_229"
    /\ assignment' = Top.new_assignment
    /\ pc' = "bt_220"
    /\ hist' = [hist EXCEPT !.nested = TRUE]
    /\ UNCHANGED <<crossword, domains, arcs, ac3_ret, ac3_result, stack, result>>

\* backtrack without lines 230-231: the loop goes on whatever the nested
\* call returned
backtrack_230_goes_on ==
    /\ pc = "bt_230"
    /\ pc' = "bt_224"
    /\ UNCHANGED <<crossword, domains, arcs, ac3_ret, ac3_result, assignment,
                   stack, result, hist>>

\* backtrack, lines 230-231: the nested call returned; return its result if
\* it is not None, else go on with the loop
backtrack_230 ==
    /\ pc = "bt_230"
    /\ IF ~ result.isNone
       THEN /\ stack' = Pop
            /\ pc' = ReturnTo(Pop)
       ELSE /\ pc' = "bt_224"
            /\ UNCHANGED stack
    /\ UNCHANGED <<crossword, domains, arcs, ac3_ret, ac3_result, assignment,
                   result, hist>>

\* backtrack, line 232: the loop ended, return None
backtrack_232 ==
    /\ pc = "bt_224"
    /\ Top.values = {}
    /\ result' = None
    /\ stack' = Pop
    /\ pc' = ReturnTo(Pop)
    /\ UNCHANGED <<crossword, domains, arcs, ac3_ret, ac3_result, assignment,
                   hist>>

Next ==
    \/ solve_94
    \/ solve_95
    \/ ac3_147
    \/ ac3_152
    \/ solve_96
    \/ backtrack_221
    \/ backtrack_222
    \/ backtrack_225
    \/ backtrack_228
    \/ backtrack_229
    \/ backtrack_230
    \/ backtrack_232

Spec == Init /\ [][Next]_vars

(***************************************************************************)
(* A client of the class.  After construction and node consistency it      *)
(* calls revise(x, y) or ac3(arcs) with any arguments; after an ac3 call   *)
(* it may call revise(x, y), or ac3() once more if the call was an ac3()   *)
(* that returned True.                                                     *)
(***************************************************************************)
InitApi == Constructed("api_new")

\* the client calls enforce_node_consistency()
api_enforce_node_consistency ==
    /\ pc = "api_new"
    /\ domains' = enforce_node_consistency(domains)
    /\ pc' = "api"
    /\ UNCHANGED <<crossword, arcs, ac3_ret, ac3_result, assignment, stack,
                   result, hist>>

\* the client calls revise(x, y)
api_revise ==
    /\ pc \in {"api", "api_ac3_done"}
    /\ \E p \in default_arcs :
         LET r == revise(domains, p[1], p[2])
         IN  /\ domains' = r.domains
             /\ hist' = [hist EXCEPT !.x = p[1], !.y = p[2], !.pre = domains,
                                     !.ret = r.ret]
    /\ pc' = "api_revised"
    /\ UNCHANGED <<crossword, arcs, ac3_ret, ac3_result, assignment, stack,
                   result>>

\* the arguments a client can give to ac3
NoArcs == [isNone |-> TRUE, set |-> {}]
ArcArgs == {NoArcs} \cup {[isNone |-> FALSE, set |-> A] : A \in SUBSET default_arcs}

\* ac3, lines 144-145
ac3_144(arg) == IF arg.isNone THEN default_arcs ELSE arg.set

\* the client calls ac3(arcs)
api_ac3 ==
    /\ pc = "api"
    /\ \E arg \in ArcArgs :
         /\ arcs' = ac3_144(arg)
         /\ hist' = [hist EXCEPT !.dom0 = domains,
                                 !.by_default = (arcs' = default_arcs)]
    /\ ac3_ret' = "api_ac3_done"
    /\ pc' = "ac3_146"
    /\ UNCHANGED <<crossword, domains, ac3_result, assignment, stack, result>>

\* the client calls ac3() again, right after an ac3() that returned True
api_ac3_again ==
    /\ pc = "api_ac3_done"
    /\ hist.by_default /\ ac3_result /\ ~ hist.again
    /\ arcs' = ac3_144(NoArcs)
    /\ hist' = [hist EXCEPT !.dom0 = domains, !.again = TRUE]
    /\ ac3_ret' = "api_ac3_done"
    /\ pc' = "ac3_146"
    /\ UNCHANGED <<crossword, domains, ac3_result, assignment, stack, result>>

NextApi ==
    \/ api_enforce_node_consistency
    \/ api_revise
    \/ api_ac3
    \/ api_ac3_again
    \/ ac3_147
    \/ ac3_152

SpecApi == InitApi /\ [][NextApi]_vars

\* a client that calls enforce_node_consistency() and then ac3(arcs) once,
\* with any argument; the interpreter keeps running the loop of ac3: a call
\* that can take a step takes one
NextAc3 ==
    \/ api_enforce_node_consistency
    \/ api_ac3
    \/ ac3_147
    \/ ac3_152

SpecAc3 ==
    InitApi /\ [][NextAc3]_vars /\ WF_vars(ac3_147) /\ WF_vars(ac3_152)

(***************************************************************************)
(* A client of the methods backtrack is built from.  After construction    *)
(* and node consistency it calls revise(x, y) any number of times, then    *)
(* one of consistent(assignment), select_unassigned_variable(assignment),  *)
(* order_domain_values(var, assignment), or the call of line 228:          *)
(* ac3(arcs) on the arcs among the slots its assignment leaves out.        *)
(***************************************************************************)
InitFn == Constructed("fn_new")

\* `assignment` is a mapping from variables (keys) to words (values)
Assignments ==
    UNION {[D -> crossword.words] : D \in SUBSET crossword.variables}

\* the client calls enforce_node_consistency()
fn_enforce_node_consistency ==
    /\ pc = "fn_new"
    /\ domains' = enforce_node_consistency(domains)
    /\ pc' = "fn"
    /\ UNCHANGED <<crossword, arcs, ac3_ret, ac3_result, assignment, stack,
                   result, hist>>

\* the client calls revise(x, y)
fn_revise ==
    /\ pc = "fn"
    /\ \E p \in default_arcs :
         /\ domains' = revise(domains, p[1], p[2]).domains
         /\ domains' # domains
    /\ UNCHANGED <<crossword, pc, arcs, ac3_ret, ac3_result, assignment, stack,
                   result, hist>>

\* the client calls consistent(assignment)
fn_consistent ==
    /\ pc = "fn"
    /\ \E a \in Assignments :
         /\ assignment' = a
         /\ hist' = [hist EXCEPT !.pre = domains, !.ret = consistent(a)]
    /\ pc' = "fn_consistent"
    /\ UNCHANGED <<crossword, domains, arcs, ac3_ret, ac3_result, stack, result>>

\* the client calls select_unassigned_variable(assignment) with an
\* assignment that is not complete
fn_select_unassigned_variable ==
    /\ pc = "fn"
    /\ \E a \in Assignments :
         /\ ~ assignment_complete(a)
         /\ assignment' = a
         /\ \E var \in select_unassigned_variable(a) :
              hist' = [hist EXCEPT !.pre = domains, !.out = var]
    /\ pc' = "fn_select"
    /\ UNCHANGED <<crossword, domains, arcs, ac3_ret, ac3_result, stack, result>>

\* the client calls order_domain_values(var, assignment) on a slot that is
\* not in the assignment
fn_order_domain_values ==
    /\ pc = "fn"
    /\ \E a \in Assignments :
         \E var \in (DOMAIN domains) \ (DOMAIN a) :
           /\ assignment' = a
           /\ \E values \in order_domain_values(var, a) :
                hist' = [hist EXCEPT !.pre = domains, !.x = var, !.out = values]
    /\ pc' = "fn_order"
    /\ UNCHANGED <<crossword, domains, arcs, ac3_ret, ac3_result, stack, result>>

\* the client makes the call of line 228 with a consistent assignment that
\* is not empty
fn_backtrack_228 ==
    /\ pc = "fn"
    /\ \E a \in Assignments :
         /\ a # <<>>
         /\ consistent(a)
         /\ assignment' = a
         /\ arcs' = unassigned_arcs(a)
    /\ hist' = [hist EXCEPT !.dom0 = domains]
    /\ ac3_ret' = "fn_ac3_done"
    /\ pc' = "ac3_146"
    /\ UNCHANGED <<crossword, domains, ac3_result, stack, result>>

NextFn ==
    \/ fn_enforce_node_consistency
    \/ fn_revise
    \/ fn_consistent
    \/ fn_select_unassigned_variable
    \/ fn_order_domain_values
    \/ fn_backtrack_228
    \/ ac3_147
    \/ ac3_152

SpecFn == InitFn /\ [][NextFn]_vars

(***************************************************************************)
(* What the properties speak of.                                           *)
(***************************************************************************)
Slots == crossword.variables

Overlapping(x, y) == x # y /\ crossword.overlaps[x, y] # NoOverlap

\* a mapping of slots to words meets the three constraints of the puzzle
Agrees(a) ==
    /\ \A x, y \in DOMAIN a : x # y => a[x] # a[y]
    /\ \A x \in DOMAIN a : Len(a[x]) = crossword.length[x]
    /\ \A x, y \in DOMAIN a :
         Overlapping(x, y) =>
            a[x][crossword.overlaps[x, y][1] + 1]
              = a[y][crossword.overlaps[x, y][2] + 1]

\* the complete consistent assignments of the puzzle over its vocabulary
Solutions == {a \in [Slots -> crossword.words] : Agrees(a)}

\* the words of the vocabulary that have the length of slot v
Fitting(v) == {w \in crossword.words : Len(w) = crossword.length[v]}

(***************************************************************************)
(* The loop of line 224 and the list it iterates over: the orders in which *)
(* backtrack_225 can take the words of a frame just entered are the lists  *)
(* order_domain_values can return.                                         *)
(***************************************************************************)
RECURSIVE OrdersFrom(_)
OrdersFrom(f) ==
    IF f.values = {}
    THEN {<<>>}
    ELSE UNION {{<<w>> \o s : s \in OrdersFrom([f EXCEPT !.values = @ \ {w}])} :
                  w \in next_values(f)}

LoopFollowsOrderDomainValues ==
    (pc = "bt_224" /\ Top.values = domains[Top.var])
        => OrdersFrom(Top) = order_domain_values(Top.var, Top.assignment)

(***************************************************************************)
(* C1: on a puzzle that admits a complete consistent assignment, solve()   *)
(* returns a mapping, not None, with exactly one entry per slot, whose     *)
(* words are pairwise distinct, of their slots' lengths, and agree at      *)
(* every overlap.                                                          *)
(***************************************************************************)
C1_SolveFindsSolution ==
    (pc = "done" /\ Solutions # {}) =>
        /\ ~ result.isNone
        /\ DOMAIN result.value = Slots
        /\ Agrees(result.value)

\* a solved puzzle of three slots, two of them crossing
C1_Witness ==
    /\ pc = "done"
    /\ Solutions # {}
    /\ Cardinality(Slots) = 3
    /\ \E x, y \in Slots : Overlapping(x, y)
    /\ ~ result.isNone
    /\ result.value \in Solutions

(***************************************************************************)
(* C2: on a puzzle with at least one slot that admits no complete          *)
(* consistent assignment, solve() returns None.                            *)
(***************************************************************************)
C2_SolveReportsFailure ==
    (pc = "done" /\ Slots # {} /\ Solutions = {}) => result = None

\* an unsatisfiable puzzle in which every slot has candidate words and two
\* slots cross, answered by None after words were tried
C2_Witness ==
    /\ pc = "done"
    /\ Solutions = {}
    /\ \A v \in Slots : Fitting(v) # {}
    /\ \E x, y \in Slots : Overlapping(x, y)
    /\ hist.assigned
    /\ result = None

(***************************************************************************)
(* C3, as claimed: on a puzzle without overlaps whose vocabulary has a     *)
(* word of the required length for every slot, solve() returns an          *)
(* assignment, never None.                                                 *)
(***************************************************************************)
NoOverlaps == \A x, y \in Slots : ~ Overlapping(x, y)

C3_Claimed ==
    (pc = "done" /\ NoOverlaps /\ \A v \in Slots : Fitting(v) # {})
        => ~ result.isNone

(***************************************************************************)
(* C3, amended: on a puzzle without overlaps whose vocabulary has, for     *)
(* every slot length, at least as many words of that length as there are   *)
(* slots of that length, solve() returns a complete assignment, never      *)
(* None.                                                                   *)
(***************************************************************************)
EnoughWords ==
    \A v \in Slots :
        Cardinality(Fitting(v))
          >= Cardinality({u \in Slots : crossword.length[u] = crossword.length[v]})

C3_SolveWithoutOverlaps ==
    (pc = "done" /\ NoOverlaps /\ EnoughWords) =>
        /\ ~ result.isNone
        /\ DOMAIN result.value = Slots

\* three slots without overlaps, two of them of the same length, solved
C3_Witness ==
    /\ pc = "done"
    /\ NoOverlaps /\ EnoughWords
    /\ Cardinality(Slots) = 3
    /\ \E x, y \in Slots : x # y /\ crossword.length[x] = crossword.length[y]
    /\ ~ result.isNone
    /\ DOMAIN result.value = Slots

(***************************************************************************)
(* C4: if no word of the vocabulary has the length of some slot, solve()   *)
(* returns None, and the search assigns no slot and makes no nested        *)
(* backtrack call.                                                         *)
(***************************************************************************)
SomeSlotFitsNoWord == \E v \in Slots : Fitting(v) = {}

C4_EmptyDomainNoSearch ==
    SomeSlotFitsNoWord =>
        /\ ~ hist.assigned
        /\ ~ hist.nested
        /\ Len(stack) <= 1
        /\ pc = "done" => result = None

\* solve() has returned on a puzzle where one slot fits no word and another
\* slot has candidate words
C4_Witness ==
    /\ pc = "done"
    /\ SomeSlotFitsNoWord
    /\ \E v \in Slots : Fitting(v) # {}
    /\ result = None

(***************************************************************************)
(* C5: when an ac3 call on the default arcs returns True, every word of    *)
(* domain(x) has, for every slot y overlapping x, a word of domain(y)      *)
(* with the same letter at the overlap.                                    *)
(***************************************************************************)
Supported(dom, x, y, wx) ==
    \E wy \in dom[y] :
        wx[crossword.overlaps[x, y][1] + 1] = wy[crossword.overlaps[x, y][2] + 1]

ArcConsistent(dom) ==
    \A x, y \in Slots :
        Overlapping(x, y) => \A wx \in dom[x] : Supported(dom, x, y, wx)

C5_Ac3ReachesFixpoint ==
    (pc = "api_ac3_done" /\ hist.by_default /\ ac3_result)
        => ArcConsistent(domains)

\* an ac3() that returned True after removing words from two domains and
\* emptying none
C5_Witness ==
    /\ pc = "api_ac3_done"
    /\ hist.by_default /\ ac3_result /\ ~ hist.again
    /\ \E x, y \in Slots :
         /\ x # y
         /\ domains[x] # hist.dom0[x]
         /\ domains[y] # hist.dom0[y]
    /\ \A v \in Slots : domains[v] # {}

(***************************************************************************)
(* C6, as claimed: ac3 returns True exactly when no domain is empty when   *)
(* it finishes, and False exactly when some domain is empty.               *)
(***************************************************************************)
C6_Claimed ==
    pc = "api_ac3_done" =>
        (ac3_result <=> \A v \in Slots : domains[v] # {})

(***************************************************************************)
(* C7: during an ac3 call, from any domains and any arcs, every domain is  *)
(* a subset of what it was when the call started; and when the call        *)
(* returns False some domain is empty.                                     *)
(***************************************************************************)
C7_Ac3OnlyShrinks ==
    pc \in {"ac3_146", "api_ac3_done"} =>
        /\ \A v \in Slots : domains[v] \subseteq hist.dom0[v]
        /\ (pc = "api_ac3_done" /\ ~ ac3_result)
              => \E v \in Slots : domains[v] = {}

\* an ac3 call on arcs given by the caller that returned False after
\* emptying a domain and shrinking another
C7_Witness ==
    /\ pc = "api_ac3_done"
    /\ ~ ac3_result
    /\ ~ hist.by_default
    /\ \E v \in Slots : domains[v] = {} /\ hist.dom0[v] # {}
    /\ \E v \in Slots : domains[v] # {} /\ domains[v] # hist.dom0[v]

(***************************************************************************)
(* C8: an ac3() made right after an ac3() returned True removes no word    *)
(* and returns True.                                                       *)
(***************************************************************************)
C8_Ac3Idempotent ==
    (hist.again /\ pc \in {"ac3_146", "api_ac3_done"}) =>
        /\ domains = hist.dom0
        /\ pc = "api_ac3_done" => ac3_result

\* the second ac3() has returned, on domains the first one had shrunk
C8_Witness ==
    /\ pc = "api_ac3_done"
    /\ hist.again
    /\ ac3_result
    /\ domains = hist.dom0
    /\ \E v \in Slots : domains[v] # Fitting(v)
    /\ \A v \in Slots : domains[v] # {}

(***************************************************************************)
(* C9: revise(x, y) changes nothing and returns False when x and y do not  *)
(* overlap; otherwise it leaves in domain(x) exactly the words that have a *)
(* word of domain(y) with the same letter at the overlap, leaves every     *)
(* other domain as it was, and returns True exactly when domain(x) lost a  *)
(* word.                                                                   *)
(***************************************************************************)
C9_Revise ==
    pc = "api_revised" =>
        IF ~ Overlapping(hist.x, hist.y)
        THEN domains = hist.pre /\ ~ hist.ret
        ELSE /\ domains[hist.x]
                  = {wx \in hist.pre[hist.x] :
                        Supported(hist.pre, hist.x, hist.y, wx)}
             /\ \A v \in Slots \ {hist.x} : domains[v] = hist.pre[v]
             /\ hist.ret <=> domains[hist.x] # hist.pre[hist.x]

\* a revise that removed some, not all, of the words of domain(x)
C9_Witness ==
    /\ pc = "api_revised"
    /\ Overlapping(hist.x, hist.y)
    /\ hist.ret
    /\ domains[hist.x] # {}
    /\ domains[hist.x] # hist.pre[hist.x]

(***************************************************************************)
(* C10: after enforce_node_consistency the domain of every slot is exactly *)
(* the set of the words of the vocabulary that have the slot's length.     *)
(***************************************************************************)
C10_NodeConsistency ==
    pc = "solve_95" => \A v \in Slots : domains[v] = Fitting(v)

\* two slots of different lengths, each keeping some words of a vocabulary
\* that holds words of both lengths
C10_Witness ==
    /\ pc = "solve_95"
    /\ \E x, y \in Slots :
         /\ crossword.length[x] # crossword.length[y]
         /\ domains[x] # {} /\ domains[y] # {}
         /\ domains[x] # domains[y]
         /\ domains[x] # crossword.words

(***************************************************************************)
(* C11: for every partial or complete assignment, consistent(assignment)   *)
(* returns true if and only if the assigned words are pairwise distinct,   *)
(* each has the length of its slot, and every two assigned slots that      *)
(* overlap hold the same letter at the shared cell; the slots left out     *)
(* play no role, and the call leaves the domains as they were.             *)
(***************************************************************************)
C11_Consistent ==
    pc = "fn_consistent" =>
        /\ hist.ret <=> Agrees(assignment)
        /\ domains = hist.pre

\* consistent returned True on an assignment of two overlapping slots that
\* leaves a third slot out
C11_Witness ==
    /\ pc = "fn_consistent"
    /\ hist.ret
    /\ DOMAIN assignment # Slots
    /\ \E x, y \in DOMAIN assignment : Overlapping(x, y)

(***************************************************************************)
(* C12: when several unassigned slots have the least number of remaining   *)
(* words, select_unassigned_variable returns one of them with the highest  *)
(* number of neighbors: no other slot with as few words has strictly more  *)
(* neighbors than the slot returned.                                       *)
(***************************************************************************)
C12_Claimed ==
    pc = "fn_select" =>
        \A z \in Slots \ (DOMAIN assignment) :
            Cardinality(domains[z]) = Cardinality(domains[hist.out])
                => Cardinality(neighbors(z)) <= Cardinality(neighbors(hist.out))

(***************************************************************************)
(* C13: for every assignment that is not complete,                         *)
(* select_unassigned_variable returns a slot that is not in the assignment *)
(* and has the fewest remaining words of all the slots not in it; it never *)
(* returns a slot of the assignment.                                       *)
(***************************************************************************)
C13_MinimumRemainingValues ==
    pc = "fn_select" =>
        /\ hist.out \in Slots \ (DOMAIN assignment)
        /\ \A z \in Slots \ (DOMAIN assignment) :
              Cardinality(domains[hist.out]) <= Cardinality(domains[z])

\* a slot was returned while another unassigned slot has more words and an
\* assigned slot has fewer
C13_Witness ==
    /\ pc = "fn_select"
    /\ \E z \in Slots \ (DOMAIN assignment) :
          Cardinality(domains[hist.out]) < Cardinality(domains[z])
    /\ \E v \in DOMAIN assignment :
          Cardinality(domains[v]) < Cardinality(domains[hist.out])

(***************************************************************************)
(* C14: order_domain_values(var, assignment) returns every word of the     *)
(* domain of var exactly once, in non-decreasing order of the number of    *)
(* words it rules out: the number of pairs of a neighbor n of var that is  *)
(* not in the assignment and a word of the domain of n whose letter at the *)
(* shared cell differs from the candidate's.  Neighbors in the assignment  *)
(* count for nothing, and the domains are left as they were.               *)
(***************************************************************************)
RuledOut(var, a, w) ==
    {nw \in (Slots \ (DOMAIN a)) \X crossword.words :
        /\ Overlapping(var, nw[1])
        /\ nw[2] \in domains[nw[1]]
        /\ w[crossword.overlaps[var, nw[1]][1] + 1]
             # nw[2][crossword.overlaps[var, nw[1]][2] + 1]}

C14_OrderDomainValues ==
    pc = "fn_order" =>
        /\ Len(hist.out) = Cardinality(domains[hist.x])
        /\ {hist.out[i] : i \in DOMAIN hist.out} = domains[hist.x]
        /\ \A i, j \in DOMAIN hist.out :
              i < j => Cardinality(RuledOut(hist.x, assignment, hist.out[i]))
                         <= Cardinality(RuledOut(hist.x, assignment, hist.out[j]))
        /\ domains = hist.pre

\* a list was returned whose first word rules out fewer words than its last,
\* for a slot with a neighbor in the assignment and a neighbor out of it
C14_Witness ==
    /\ pc = "fn_order"
    /\ hist.out # <<>>
    /\ Cardinality(RuledOut(hist.x, assignment, hist.out[1]))
         < Cardinality(RuledOut(hist.x, assignment, hist.out[Len(hist.out)]))
    /\ \E n \in DOMAIN assignment : Overlapping(hist.x, n)
    /\ \E n \in Slots \ (DOMAIN assignment) : Overlapping(hist.x, n)

(***************************************************************************)
(* C15: for any domain store and any partial assignment, the ac3 call of   *)
(* line 228, seeded with the arcs among the slots that are not in the      *)
(* extended assignment, leaves the domains of the assigned slots           *)
(* untouched: no arc whose first slot is assigned is ever to be revised,   *)
(* the arcs put back after a revision included, so no word leaves the      *)
(* domain of a slot of the assignment.                                     *)
(***************************************************************************)
InCallOfLine228 == ac3_ret = "fn_ac3_done" /\ pc \in {"ac3_146", "fn_ac3_done"}

C15_Claimed ==
    InCallOfLine228 =>
        /\ \A arc \in arcs : arc[1] \notin DOMAIN assignment
        /\ \A v \in DOMAIN assignment : domains[v] = hist.dom0[v]

(***************************************************************************)
(* C16: for every set of slots, every domains and every initial set of     *)
(* arcs, ac3 terminates whatever the order in which the arcs are taken     *)
(* from the set: a call that is running its loop eventually returns, and   *)
(* a turn of the loop puts arcs into the set only when it removed a word   *)
(* from a domain.                                                          *)
(***************************************************************************)
C16_Ac3Terminates ==
    /\ [][(pc = "ac3_146" /\ ~ (arcs' \subseteq arcs)) =>
            \E x \in DOMAIN domains :
               /\ domains'[x] \subseteq domains[x]
               /\ domains'[x] # domains[x]]_vars
    /\ (pc = "ac3_146") ~> (pc = "api_ac3_done")

\* a call returned after it put arcs back: a revision removed a word and
\* the loop went on
C16_Witness ==
    /\ pc = "api_ac3_done"
    /\ ac3_result
    /\ ~ hist.by_default
    /\ domains # hist.dom0

(***************************************************************************)
(* C17: first success wins.  Once a call of backtrack has returned an      *)
(* assignment, every step that follows is the return of that same          *)
(* assignment by the enclosing invocation: no further word is tried, no    *)
(* slot is selected, no consistent, ac3 or backtrack call is made.  An     *)
(* invocation returns None only when every word of the domain of its slot  *)
(* has been taken by the loop, and the loop, which takes the words in an   *)
(* order order_domain_values can return, moves on to its next word only    *)
(* after consistent rejected the last one or the nested call on it         *)
(* returned None.                                                          *)
(***************************************************************************)
C17_FirstSuccessWins ==
    /\ [][~ result.isNone =>
            /\ pc = "bt_230"
            /\ result' = result
            /\ stack' = Pop
            /\ pc' = ReturnTo(Pop)
            /\ UNCHANGED <<domains, arcs, assignment>>]_vars
    /\ [][(Len(stack') < Len(stack) /\ result'.isNone) =>
            /\ pc = "bt_224"
            /\ Top.values = {}]_vars
    /\ [][(pc' = "bt_224" /\ pc # "bt_220") =>
            \/ pc = "bt_224" /\ ~ consistent(stack'[Len(stack')].new_assignment)
            \/ pc = "bt_230" /\ result.isNone]_vars
    /\ []LoopFollowsOrderDomainValues

\* an assignment is on its way up through two enclosing invocations, each of
\* which still has words it did not try
C17_Witness ==
    /\ pc = "bt_230"
    /\ ~ result.isNone
    /\ Len(stack) >= 2
    /\ \A i \in DOMAIN stack : stack[i].values # {}

(***************************************************************************)
(* C18: at every point of a search started by solve(), the assignment of   *)
(* the invocation of backtrack at recursion depth d has exactly d entries  *)
(* and is consistent; it is the same mapping for as long as the invocation *)
(* lasts, before and after every nested call; a nested call receives its   *)
(* caller's assignment extended by exactly one slot; and the depth never   *)
(* exceeds the number of slots.                                            *)
(***************************************************************************)
\* stack[i] is the invocation at depth i - 1; at line 220 the invocation just
\* entered, at depth Len(stack), holds `assignment`
C18_AtEveryDepth ==
    /\ \A i \in DOMAIN stack :
          /\ Cardinality(DOMAIN stack[i].assignment) = i - 1
          /\ consistent(stack[i].assignment)
          /\ stack[i].var \notin DOMAIN stack[i].assignment
    /\ \A i \in DOMAIN stack :
          i > 1 =>
             /\ DOMAIN stack[i].assignment
                  = (DOMAIN stack[i-1].assignment) \cup {stack[i-1].var}
             /\ \A v \in DOMAIN stack[i-1].assignment :
                   stack[i].assignment[v] = stack[i-1].assignment[v]
    /\ (pc = "bt_220" /\ stack # <<>>) =>
          /\ Cardinality(DOMAIN assignment) = Len(stack)
          /\ consistent(assignment)
          /\ DOMAIN assignment = (DOMAIN Top.assignment) \cup {Top.var}
          /\ \A v \in DOMAIN Top.assignment : assignment[v] = Top.assignment[v]
    /\ (pc = "bt_220" /\ stack = <<>>) => assignment = <<>>
    /\ Len(stack) <= Cardinality(Slots)

C18_SearchAssignments ==
    /\ []C18_AtEveryDepth
    /\ [][\A i \in (DOMAIN stack) \cap (DOMAIN stack') :
             stack'[i].assignment = stack[i].assignment]_vars

\* a nested call at depth 2 returned None to its caller, whose tentative
\* extension is abandoned
C18_Witness ==
    /\ pc = "bt_230"
    /\ result.isNone
    /\ Len(stack) >= 2
    /\ Top.new_assignment # Top.assignment

(***************************************************************************)
(* C19: within one run of solve(), once enforce_node_consistency and the   *)
(* ac3 of line 95 have finished, no later step modifies the domain of any  *)
(* slot: the ac3 calls of line 228 remove no word, so every branch of the  *)
(* search sees the same domains.                                           *)
(***************************************************************************)
AfterLine95 ==
    /\ pc \notin {"solve_94", "solve_95"}
    /\ ~ (pc = "ac3_146" /\ ac3_ret = "solve_96")

C19_DomainsFixedInSearch == [][AfterLine95 => domains' = domains]_vars

\* an ac3 call of line 228 has returned, on slots that overlap and have
\* words, after an earlier branch of the search was explored
C19_Witness ==
    /\ pc = "bt_229"
    /\ hist.nested
    /\ \E x, y \in Slots \ (DOMAIN Top.new_assignment) :
          Overlapping(x, y) /\ domains[x] # {} /\ domains[y] # {}

(***************************************************************************)
(* C20: the outcome of ac3() on the default arcs does not depend on the    *)
(* order in which the arcs are taken from the set: from a given store,     *)
(* every order gives the same return value, and when that value is True    *)
(* every order gives the same final domains.  Both are functions of the    *)
(* starting store alone: the final domains are its largest arc-consistent  *)
(* part, and the value is False exactly when that part has lost every word *)
(* of some domain that had words.                                          *)
(***************************************************************************)
RECURSIVE LargestArcConsistent(_)
LargestArcConsistent(dom) ==
    LET kept == [x \in DOMAIN dom |->
                    {wx \in dom[x] :
                        \A y \in DOMAIN dom :
                            Overlapping(x, y) => Supported(dom, x, y, wx)}]
    IN  IF kept = dom THEN dom ELSE LargestArcConsistent(kept)

EmptiesADomain(dom) ==
    \E x \in DOMAIN dom : dom[x] # {} /\ LargestArcConsistent(dom)[x] = {}

C20_Ac3OrderIndependent ==
    (pc = "api_ac3_done" /\ hist.by_default) =>
        /\ ac3_result <=> ~ EmptiesADomain(hist.dom0)
        /\ ac3_result => domains = LargestArcConsistent(hist.dom0)

\* an ac3() returned True after it removed words from the domains of two
\* slots of a crossword with three: more than one order of the arcs led here
C20_Witness ==
    /\ pc = "api_ac3_done"
    /\ hist.by_default
    /\ ac3_result
    /\ Cardinality(Slots) = 3
    /\ Cardinality({x \in Slots : domains[x] # hist.dom0[x]}) >= 2

============================================================================
